---- MODULE Spec2Model ----
(***************************************************************************)
(* Model of pollutionclient_rs: the poll / retry / persist loop of         *)
(* src/main.rs with its configuration building and validation, and the     *)
(* sink URL normalisation of src/lib.rs and src/main.rs.                   *)
(*                                                                         *)
(* Strings that the code inspects character by character (the sink URL,    *)
(* the numeric environment values) are sequences of one-character strings; *)
(* strings the code only stores and compares are TLA+ strings.             *)
(***************************************************************************)
EXTENDS Integers, Sequences, FiniteSets, TLC

VARIABLES
    pc,               \* position of main(): start, parsed, validated, loop, fetch, write, sleep, terminated
    exit,             \* why the process terminated ("running" while it has not)
    cfg,              \* running_config, the Config of main.rs
    running_coords,   \* main.rs:289
    running_client,   \* main.rs:303
    running_url,      \* main.rs:305
    error_count,      \* main.rs:307
    current,          \* current_aqi / current_pollution of the cycle, main.rs:317-318
    geo_calls,        \* history: calls of get_coords_zipcode
    fetches,          \* history: calls of get_pollution
    ok_fetches,       \* history: calls of get_pollution that returned Ok
    writes,           \* history: calls of write_to_db
    slept,            \* history: seconds of the latest thread::sleep, -1 before the first
    last_cycle,       \* history: outcome of the latest cycle: none, success, failure
    mixed,            \* history: a successful cycle completed after a failed fetch
    last_write,       \* history: result of the latest write_to_db: none, ok, err
    sleeps,           \* history: number of calls of thread::sleep
    got_empty,        \* history: get_pollution returned Ok with an empty list
    arg,              \* the string handed to set_dbserver in the normalisation runs
    lib_config,       \* a Config of lib.rs
    lib_in,           \* history: parameter of the latest lib.rs set_dbserver call
    lib_prev,         \* history: lib_config.dbserver before the latest call
    lib_calls,        \* history: number of lib.rs set_dbserver calls
    main_in,          \* history: parameter of the latest main.rs set_dbserver call outside parse_env
    main_prev,        \* history: cfg.dbserver before that call
    main_calls,       \* history: number of such calls
    lib_pc,           \* position of a caller of lib.rs: start, configured, client, stopped
    lib_exit,         \* why that caller stopped ("running" while it has not)
    lib_input,        \* history: the environment or configuration file the Config was built from
    lib_client,       \* the Client build_client of lib.rs returned
    lib_geo_calls,    \* history: calls of get_coords_zipcode of lib.rs
    response,         \* a decoded PollResponse handed to the unpacking runs
    lib_update,       \* the PollUpdate PollResponse::unpack returned
    lib_point,        \* the point write_to_db of lib.rs handed to the sink
    main_point        \* the point write_to_db of main.rs handed to the sink

vars == <<pc, exit, cfg, running_coords, running_client, running_url, error_count,
          current, geo_calls, fetches, ok_fetches, writes, slept, last_cycle, mixed,
          last_write, sleeps, got_empty, arg, lib_config, lib_in, lib_prev, lib_calls, main_in, main_prev, main_calls,
          lib_pc, lib_exit, lib_input, lib_client, lib_geo_calls,
          response, lib_update, lib_point, main_point>>

mainVars == <<pc, exit, cfg, running_coords, running_client, running_url, error_count,
              current, geo_calls, fetches, ok_fetches, writes, slept, last_cycle, mixed,
              last_write, sleeps, got_empty>>

libVars == <<lib_pc, lib_exit, lib_input, lib_client, lib_geo_calls>>

unpackVars == <<response, lib_update, lib_point, main_point>>

normVars == <<arg, lib_config, lib_in, lib_prev, lib_calls, main_in, main_prev, main_calls,
              libVars, unpackVars>>

----------------------------------------------------------------------------
(* Bounds *)

MaxSuccess == 2      \* successful fetches in one run
MaxList    == 2      \* entries of a decoded pollution response
MaxBody    == 3      \* characters after the scheme prefix of a sink URL input
MaxCalls   == 2      \* set_dbserver calls in one normalisation run

----------------------------------------------------------------------------
(* Option<T> *)

None == [some |-> FALSE]
Some(x) == [some |-> TRUE, val |-> x]

----------------------------------------------------------------------------
(* Character strings *)

HTTP  == <<"h","t","t","p",":","/","/">>
HTTPS == <<"h","t","t","p","s",":","/","/">>
DEFAULT_PORT == <<":","8","0","8","6">>
LOCALHOST_8086 == HTTP \o <<"l","o","c","a","l","h","o","s","t">> \o DEFAULT_PORT

starts_with(s, p) == Len(s) >= Len(p) /\ SubSeq(s, 1, Len(p)) = p

\* number of pieces s.rsplit(":") yields: one more than the number of colons
rsplit_len(s) == 1 + Cardinality({i \in 1..Len(s) : s[i] = ":"})

Digits == <<"0","1","2","3","4","5","6","7","8","9">>
IsDigit(c) == \E d \in 1..10 : Digits[d] = c
DigitVal(c) == (CHOOSE d \in 1..10 : Digits[d] = c) - 1

RECURSIVE DecVal(_)
DecVal(s) == IF s = <<>> THEN 0
             ELSE 10 * DecVal(SubSeq(s, 1, Len(s) - 1)) + DigitVal(s[Len(s)])

RECURSIVE strip_zeros(_)
strip_zeros(s) == IF s # <<>> /\ s[1] = "0" THEN strip_zeros(SubSeq(s, 2, Len(s))) ELSE s

RECURSIVE digits_le(_, _)
\* a <= b for digit strings of the same length
digits_le(a, b) == IF a = <<>> THEN TRUE
                   ELSE IF DigitVal(a[1]) # DigitVal(b[1]) THEN DigitVal(a[1]) < DigitVal(b[1])
                   ELSE digits_le(SubSeq(a, 2, Len(a)), SubSeq(b, 2, Len(b)))

\* the digit string fits the integer type whose largest value is written maxdigits
fits_width(body, maxdigits) ==
    LET v == strip_zeros(body)
    IN  \/ Len(v) < Len(maxdigits)
        \/ Len(v) = Len(maxdigits) /\ digits_le(v, maxdigits)

U64_MAX == <<"1","8","4","4","6","7","4","4","0","7","3","7","0","9","5","5","1","6","1","5">>
U8_MAX == <<"2","5","5">>

\* variant of parse_unsigned: a leading plus sign is not accepted
parse_unsigned_noplus(s, maxdigits) ==
    IF s # <<>> /\ (\A i \in 1..Len(s) : IsDigit(s[i])) /\ fits_width(s, maxdigits)
    THEN Some(DecVal(s)) ELSE None

\* str::parse::<uN>() : an optional '+', then at least one digit, value within the width
parse_unsigned(s, maxdigits) ==
    LET body == IF s # <<>> /\ s[1] = "+" THEN SubSeq(s, 2, Len(s)) ELSE s
    IN  IF body # <<>> /\ (\A i \in 1..Len(body) : IsDigit(body[i])) /\ fits_width(body, maxdigits)
        THEN Some(DecVal(body)) ELSE None

unwrap_or(opt, d) == IF opt.some THEN opt.val ELSE d

----------------------------------------------------------------------------
(* Sink URL normalisation *)

\* BUG-VARIANT of lib_set_dbserver: the port is appended while fewer than three colons are seen
lib_set_dbserver_rsplit4(new_dbserver) ==
    LET final_server == IF starts_with(new_dbserver, HTTP) \/ starts_with(new_dbserver, HTTPS)
                        THEN new_dbserver ELSE HTTP \o new_dbserver
    IN  IF rsplit_len(final_server) < 4 THEN final_server \o DEFAULT_PORT ELSE final_server

\* BUG-VARIANT of lib_set_dbserver: colons are counted in the parameter, https is not a scheme
lib_set_dbserver_param(new_dbserver) ==
    LET final_server == IF ~starts_with(new_dbserver, HTTP)
                        THEN HTTP \o new_dbserver ELSE new_dbserver
    IN  IF rsplit_len(new_dbserver) < 3 THEN final_server \o DEFAULT_PORT ELSE final_server

\* Config::set_dbserver of lib.rs: the value stored in self.dbserver
lib_set_dbserver(new_dbserver) ==
    LET final_server == IF starts_with(new_dbserver, HTTP) THEN new_dbserver
                        ELSE IF starts_with(new_dbserver, HTTPS) THEN new_dbserver
                        ELSE HTTP \o new_dbserver
    IN  IF rsplit_len(final_server) < 3 THEN final_server \o DEFAULT_PORT ELSE final_server

\* Config::set_dbserver of main.rs: the colons are counted in the parameter, not in final_server
main_set_dbserver(new_dbserver) ==
    LET final_server == IF ~starts_with(new_dbserver, HTTP)
                        THEN HTTP \o new_dbserver ELSE new_dbserver
    IN  IF rsplit_len(new_dbserver) < 3 THEN final_server \o DEFAULT_PORT ELSE final_server

----------------------------------------------------------------------------
(* Config of main.rs *)

ConfigNew == [apikey |-> None, location |-> None, timing |-> 60, dbname |-> None,
              dbserver |-> None, dbuser |-> None, dbpass |-> None, max_retry |-> 3]

\* f32::to_string of the latitudes and longitudes the model uses
f32_to_string(x) == CASE x = 0 -> "0" [] x = 42 -> "42" [] x = -71 -> "-71"

get_key(c) == IF c.apikey.some THEN c.apikey.val ELSE "NOAPISET"

get_coords(c) == IF c.location.some
                 THEN <<f32_to_string(c.location.val.lat), f32_to_string(c.location.val.lon)>>
                 ELSE <<"0", "0">>

get_timing(c) == c.timing

get_dbserver(c) == IF c.dbserver.some THEN c.dbserver.val ELSE LOCALHOST_8086

get_dbname(c) == IF c.dbname.some THEN c.dbname.val ELSE "test"

get_maxretry(c) == c.max_retry

\* get_coords_zipcode: one request to the geocoding endpoint; answer is what the network returns
get_coords_zipcode(zip, country, apikey, answer) ==
    IF answer.ok
    THEN [ok |-> TRUE,
          val |-> [zip |-> zip, name |-> "Town", lat |-> answer.lat, lon |-> answer.lon,
                   country |-> country]]
    ELSE [ok |-> FALSE]

\* Config::parse_env of main.rs; env is the environment, answer the geocoding outcome
parse_env(env, answer) ==
    LET c0 == ConfigNew
        c1 == IF env.OPENWEATHER_API_KEY.some
              THEN [c0 EXCEPT !.apikey = Some(env.OPENWEATHER_API_KEY.val)] ELSE c0
        country == IF env.OPENWEATHER_POLL_COUNTRY.some
                   THEN env.OPENWEATHER_POLL_COUNTRY.val ELSE "US"
        geo == get_coords_zipcode(env.OPENWEATHER_POLL_ZIP.val, country, get_key(c1), answer)
        c2 == IF env.OPENWEATHER_POLL_ZIP.some
              THEN [c1 EXCEPT !.location = Some(geo.val)] ELSE c1
        config_timing == IF env.OPENWEATHER_POLL_TIMING.some
                         THEN env.OPENWEATHER_POLL_TIMING.val ELSE <<"3","6","0","0">>
        c3 == [c2 EXCEPT !.timing = unwrap_or(parse_unsigned(config_timing, U64_MAX), 3600)]
        c4 == IF env.OPENWEATHER_INFLUXDB_NAME.some
              THEN [c3 EXCEPT !.dbname = Some(env.OPENWEATHER_INFLUXDB_NAME.val)] ELSE c3
        c5 == IF env.OPENWEATHER_INFLUXDB_SERVER.some
              THEN [c4 EXCEPT !.dbserver =
                        Some(main_set_dbserver(env.OPENWEATHER_INFLUXDB_SERVER.val))]
              ELSE c4
        c6 == IF env.OPENWEATHER_INFLUXDB_DBUSER.some
              THEN [c5 EXCEPT !.dbuser = Some(env.OPENWEATHER_INFLUXDB_DBUSER.val)] ELSE c5
        c7 == IF env.OPENWEATHER_INFLUXDB_DBPASS.some
              THEN [c6 EXCEPT !.dbpass = Some(env.OPENWEATHER_INFLUXDB_DBPASS.val)] ELSE c6
        new_maxretry == IF env.OPENWEATHER_MAX_RETRY.some
                        THEN env.OPENWEATHER_MAX_RETRY.val ELSE <<"3">>
        c8 == [c7 EXCEPT !.max_retry = unwrap_or(parse_unsigned(new_maxretry, U8_MAX), 3)]
    IN  IF env.OPENWEATHER_POLL_ZIP.some /\ ~geo.ok
        THEN [ok |-> FALSE, requests |-> 1]
        ELSE [ok |-> TRUE, val |-> c8,
              requests |-> IF env.OPENWEATHER_POLL_ZIP.some THEN 1 ELSE 0]

\* variant of build_client: a user without a password yields a client without authentication
build_client_lenient(this_config) ==
    IF this_config.dbpass.some /\ ~this_config.dbuser.some THEN [ok |-> FALSE]
    ELSE IF this_config.dbpass.some
    THEN [ok |-> TRUE,
          val |-> [url |-> get_dbserver(this_config), database |-> get_dbname(this_config),
                   auth |-> Some(<<this_config.dbuser.val, this_config.dbpass.val>>)]]
    ELSE [ok |-> TRUE,
          val |-> [url |-> get_dbserver(this_config), database |-> get_dbname(this_config),
                   auth |-> None]]

\* build_client of main.rs: panics on a half-set credential pair
build_client(this_config) ==
    IF ~this_config.dbpass.some /\ this_config.dbuser.some THEN [ok |-> FALSE]
    ELSE IF this_config.dbpass.some /\ ~this_config.dbuser.some THEN [ok |-> FALSE]
    ELSE IF this_config.dbpass.some
    THEN [ok |-> TRUE,
          val |-> [url |-> get_dbserver(this_config), database |-> get_dbname(this_config),
                   auth |-> Some(<<this_config.dbuser.val, this_config.dbpass.val>>)]]
    ELSE [ok |-> TRUE,
          val |-> [url |-> get_dbserver(this_config), database |-> get_dbname(this_config),
                   auth |-> None]]

----------------------------------------------------------------------------
(* Inputs *)

Opt(S) == {None} \cup {Some(x) : x \in S}

TimingTexts == {<<"0">>, <<"1">>, <<"3","6","0","1">>, <<"1","h">>}
RetryTexts  == {<<"0">>, <<"1">>, <<"2">>, <<"2","5","5">>, <<"2","5","6">>}
ServerTexts == {<<"h">>, <<"h",":","9">>}

Environments ==
    [OPENWEATHER_API_KEY : Opt({"KEY"}),
     OPENWEATHER_POLL_ZIP : Opt({"02134"}),
     OPENWEATHER_POLL_COUNTRY : Opt({"CA"}),
     OPENWEATHER_POLL_TIMING : Opt(TimingTexts),
     OPENWEATHER_INFLUXDB_NAME : Opt({"air"}),
     OPENWEATHER_INFLUXDB_SERVER : Opt(ServerTexts),
     OPENWEATHER_INFLUXDB_DBUSER : Opt({"user"}),
     OPENWEATHER_INFLUXDB_DBPASS : Opt({"secret"}),
     OPENWEATHER_MAX_RETRY : Opt(RetryTexts)]

GeoAnswers == {[ok |-> FALSE]} \cup
              {[ok |-> TRUE, lat |-> 0, lon |-> 0], [ok |-> TRUE, lat |-> 42, lon |-> -71],
               [ok |-> TRUE, lat |-> 0, lon |-> -71]}

Components == [co : {201}, no : {0}, no2 : {1}, o3 : {68}, so2 : {7}, pm2_5 : {3},
               pm10 : {4, 5}, nh3 : {6}]
PollLists == [components : Components, main : [aqi : {2}]]

RECURSIVE SeqsUpTo(_, _)
SeqsUpTo(S, n) == IF n = 0 THEN {<<>>}
                  ELSE LET shorter == SeqsUpTo(S, n - 1)
                       IN  shorter \cup {Append(q, x) : q \in shorter, x \in S}

PollResponses == [list : SeqsUpTo(PollLists, MaxList)]

BodyChars == {"h", ":", "/", "9"}
Prefixes == {<<>>, HTTP, HTTPS, <<"t","c","p",":","/","/">>, <<"h","t","t","p",":","/">>}
Examples == {<<"l","o","c","a","l","h","o","s","t">>,
             <<"l","o","c","a","l","h","o","s","t",":","9","0","0","0">>,
             <<"h","t","t","p","s",":","/","/","h","o","s","t",":","9","0","0","0">>,
             <<"h","t","t","p",":","/","/","h","o","s","t">>}
UrlInputs == {p \o b : p \in Prefixes, b \in SeqsUpTo(BodyChars, MaxBody)} \cup Examples

----------------------------------------------------------------------------
(* Config of lib.rs *)

LibConfigNew == [apikey |-> None, location |-> None, timing |-> 3600, dbname |-> None,
                 dbserver |-> None, dbuser |-> None, dbpass |-> None, max_retry |-> 3,
                 token |-> None]

----------------------------------------------------------------------------
(* The process of main.rs *)

InitMain ==
    /\ pc = "start"
    /\ exit = "running"
    /\ cfg = ConfigNew
    /\ running_coords = <<>>
    /\ running_client = None
    /\ running_url = None
    /\ error_count = 0
    /\ current = None
    /\ geo_calls = 0
    /\ fetches = 0
    /\ ok_fetches = 0
    /\ writes = 0
    /\ slept = -1
    /\ last_cycle = "none"
    /\ mixed = FALSE
    /\ last_write = "none"
    /\ sleeps = 0
    /\ got_empty = FALSE

InitNormRest ==
    /\ lib_config = LibConfigNew
    /\ lib_in = <<>>
    /\ lib_prev = None
    /\ lib_calls = 0
    /\ main_in = <<>>
    /\ main_prev = None
    /\ main_calls = 0
    /\ lib_pc = "start"
    /\ lib_exit = "running"
    /\ lib_input = None
    /\ lib_client = None
    /\ lib_geo_calls = 0
    /\ lib_update = None
    /\ lib_point = None
    /\ main_point = None

Init == InitMain /\ InitNormRest /\ arg = <<>> /\ response = None

Terminate(reason) == pc' = "terminated" /\ exit' = reason

\* variant of ParseEnv: a failed configuration build is tried again
ParseEnv_retry ==
    /\ pc = "start"
    /\ \E env \in Environments, answer \in GeoAnswers :
          LET r == parse_env(env, answer)
          IN  /\ geo_calls' = geo_calls + r.requests
              /\ IF r.ok
                 THEN cfg' = r.val /\ pc' = "parsed" /\ exit' = exit
                 ELSE cfg' = cfg /\ pc' = "start" /\ exit' = exit
    /\ UNCHANGED <<running_coords, running_client, running_url, error_count, current,
                   fetches, ok_fetches, writes, slept, last_cycle, mixed, last_write>>
    /\ UNCHANGED <<sleeps, got_empty>>
    /\ UNCHANGED normVars

\* main.rs:277-280: parse_env, a panic when it returns Err
ParseEnv ==
    /\ pc = "start"
    /\ \E env \in Environments, answer \in GeoAnswers :
          LET r == parse_env(env, answer)
          IN  /\ geo_calls' = geo_calls + r.requests
              /\ IF r.ok
                 THEN cfg' = r.val /\ pc' = "parsed" /\ exit' = exit
                 ELSE cfg' = cfg /\ Terminate("config_error")
    /\ UNCHANGED <<running_coords, running_client, running_url, error_count, current,
                   fetches, ok_fetches, writes, slept, last_cycle, mixed, last_write>>
    /\ UNCHANGED <<sleeps, got_empty>>
    /\ UNCHANGED normVars

\* main.rs:281-301: the first failing check of the running configuration, "ok" when none fails
check_config(c) ==
    IF ~c.apikey.some THEN "no_apikey"
    ELSE IF ~c.location.some THEN "no_location"
    ELSE IF get_coords(c) = <<"0", "0">> THEN "default_coords"
    ELSE IF ~c.dbserver.some THEN "no_dbserver"
    ELSE IF ~c.dbname.some THEN "no_dbname"
    ELSE "ok"

\* main.rs:281-301
CheckConfig ==
    /\ pc = "parsed"
    /\ LET verdict == check_config(cfg)
       IN  /\ running_coords' = IF verdict \in {"no_apikey", "no_location"}
                                THEN running_coords ELSE get_coords(cfg)
           /\ IF verdict = "ok"
              THEN pc' = "validated" /\ exit' = exit
              ELSE Terminate(verdict)
    /\ UNCHANGED <<cfg, running_client, running_url, error_count, current, geo_calls,
                   fetches, ok_fetches, writes, slept, last_cycle, mixed, last_write>>
    /\ UNCHANGED <<sleeps, got_empty>>
    /\ UNCHANGED normVars

\* main.rs:305
format_url(coords, key) == [lat |-> coords[1], lon |-> coords[2], appid |-> key]

\* main.rs:303-307: build_client, running_url, error_count = 0
BuildClient ==
    /\ pc = "validated"
    /\ LET r == build_client(cfg)
       IN  IF r.ok
           THEN /\ running_client' = Some(r.val)
                /\ running_url' = Some(format_url(running_coords, get_key(cfg)))
                /\ error_count' = 0
                /\ pc' = "loop"
                /\ exit' = exit
           ELSE /\ Terminate("half_credentials")
                /\ UNCHANGED <<running_client, running_url, error_count>>
    /\ UNCHANGED <<cfg, running_coords, current, geo_calls, fetches, ok_fetches, writes,
                   slept, last_cycle, mixed, last_write>>
    /\ UNCHANGED <<sleeps, got_empty>>
    /\ UNCHANGED normVars

\* variant of LoopCond: the loop is left one failure early
LoopCond_early(count, max) == count + 1 < max

\* variant of LoopCond: one failure too many is tolerated
LoopCond_le(count, max) == count <= max

\* variant of LoopCond: the loop body runs once before the budget is looked at
LoopCond_first(count, max) == count = 0 \/ count < max

\* main.rs:309: the while condition
LoopCond(count, max) == count < max

\* main.rs:309 and 336: enter the next cycle, or leave the loop and panic
LoopCheck ==
    /\ pc = "loop"
    /\ IF LoopCond(error_count, get_maxretry(cfg))
       THEN pc' = "fetch" /\ exit' = exit
       ELSE Terminate("max_errors")
    /\ UNCHANGED <<cfg, running_coords, running_client, running_url, error_count, current,
                   geo_calls, fetches, ok_fetches, writes, slept, last_cycle, mixed, last_write>>
    /\ UNCHANGED <<sleeps, got_empty>>
    /\ UNCHANGED normVars

\* variant of increment_u8: the failure is reported and not counted
increment_u8_stuck(count) == {[panic |-> FALSE, val |-> count]}

\* main.rs:328: error_count + 1 on a u8; at 255 a debug build panics, a release build wraps
increment_u8(count) ==
    IF count + 1 <= 255 THEN {[panic |-> FALSE, val |-> count + 1]}
    ELSE {[panic |-> TRUE], [panic |-> FALSE, val |-> (count + 1) % 256]}

\* main.rs:310-313, 326-333: get_pollution returned Err
FetchErr ==
    /\ pc = "fetch"
    /\ fetches' = fetches + 1
    /\ \E r \in increment_u8(error_count) :
          IF r.panic
          THEN Terminate("overflow") /\ UNCHANGED <<error_count, last_cycle>>
          ELSE /\ error_count' = r.val
               /\ last_cycle' = "failure"
               /\ pc' = "sleep"
               /\ exit' = exit
    /\ UNCHANGED <<cfg, running_coords, running_client, running_url, current, geo_calls,
                   ok_fetches, writes, slept, mixed, last_write>>
    /\ UNCHANGED <<sleeps, got_empty>>
    /\ UNCHANGED normVars

\* variant of FetchOk: the reading is printed and the cycle ends without a write
FetchOk_no_write ==
    /\ pc = "fetch"
    /\ ok_fetches < MaxSuccess
    /\ fetches' = fetches + 1
    /\ ok_fetches' = ok_fetches + 1
    /\ \E unpacked \in PollResponses :
          /\ got_empty' = (Len(unpacked.list) = 0)
          /\ IF Len(unpacked.list) = 0
             THEN Terminate("index_panic") /\ UNCHANGED <<current, last_cycle>>
             ELSE /\ current' = current
                  /\ last_cycle' = "success"
                  /\ pc' = "sleep"
                  /\ exit' = exit
    /\ UNCHANGED <<cfg, running_coords, running_client, running_url, error_count, geo_calls,
                   writes, slept, mixed, last_write>>
    /\ UNCHANGED sleeps
    /\ UNCHANGED normVars

\* variant of FetchOk: an empty list is handled like a fetch error
FetchOk_empty_counted ==
    /\ pc = "fetch"
    /\ ok_fetches < MaxSuccess
    /\ fetches' = fetches + 1
    /\ ok_fetches' = ok_fetches + 1
    /\ \E unpacked \in PollResponses :
          /\ got_empty' = (Len(unpacked.list) = 0)
          /\ IF Len(unpacked.list) = 0
             THEN /\ current' = current
                  /\ error_count' = (error_count + 1) % 256
                  /\ last_cycle' = "failure"
                  /\ pc' = "sleep"
                  /\ exit' = exit
             ELSE /\ current' = Some([aqi |-> unpacked.list[1].main.aqi,
                                      pollution |-> unpacked.list[1].components])
                  /\ UNCHANGED <<error_count, last_cycle>>
                  /\ pc' = "write"
                  /\ exit' = exit
    /\ UNCHANGED <<cfg, running_coords, running_client, running_url, geo_calls,
                   writes, slept, mixed, last_write>>
    /\ UNCHANGED sleeps
    /\ UNCHANGED normVars

\* main.rs:310-321: get_pollution returned Ok; list[0] panics on an empty list
FetchOk ==
    /\ pc = "fetch"
    /\ ok_fetches < MaxSuccess
    /\ fetches' = fetches + 1
    /\ ok_fetches' = ok_fetches + 1
    /\ \E unpacked \in PollResponses :
          /\ got_empty' = (Len(unpacked.list) = 0)
          /\ IF Len(unpacked.list) = 0
             THEN Terminate("index_panic") /\ current' = current
             ELSE /\ current' = Some([aqi |-> unpacked.list[1].main.aqi,
                                      pollution |-> unpacked.list[1].components])
                  /\ pc' = "write"
                  /\ exit' = exit
    /\ UNCHANGED <<cfg, running_coords, running_client, running_url, error_count, geo_calls,
                   writes, slept, last_cycle, mixed, last_write>>
    /\ UNCHANGED sleeps
    /\ UNCHANGED normVars

\* variant of WriteOk: the cycle continues with the next fetch without the sleep
WriteOk_no_sleep ==
    /\ pc = "write"
    /\ writes' = writes + 1
    /\ last_write' = "ok"
    /\ current' = None
    /\ last_cycle' = "success"
    /\ mixed' = (mixed \/ error_count > 0)
    /\ pc' = "loop"
    /\ UNCHANGED <<exit, cfg, running_coords, running_client, running_url, error_count,
                   geo_calls, fetches, ok_fetches, slept>>
    /\ UNCHANGED <<sleeps, got_empty>>
    /\ UNCHANGED normVars

\* main.rs:323-325: write_to_db returned Ok
WriteOk ==
    /\ pc = "write"
    /\ writes' = writes + 1
    /\ last_write' = "ok"
    /\ current' = None
    /\ last_cycle' = "success"
    /\ mixed' = (mixed \/ error_count > 0)
    /\ pc' = "sleep"
    /\ UNCHANGED <<exit, cfg, running_coords, running_client, running_url, error_count,
                   geo_calls, fetches, ok_fetches, slept>>
    /\ UNCHANGED <<sleeps, got_empty>>
    /\ UNCHANGED normVars

\* variant of WriteErr: the sink error is handled like a fetch error
WriteErr_counted ==
    /\ pc = "write"
    /\ writes' = writes + 1
    /\ last_write' = "err"
    /\ current' = None
    /\ error_count' = (error_count + 1) % 256
    /\ last_cycle' = "failure"
    /\ pc' = "sleep"
    /\ UNCHANGED <<exit, cfg, running_coords, running_client, running_url,
                   geo_calls, fetches, ok_fetches, slept, mixed>>
    /\ UNCHANGED <<sleeps, got_empty>>
    /\ UNCHANGED normVars

\* main.rs:323: write_to_db returned Err, which the ? operator returns from main
WriteErr ==
    /\ pc = "write"
    /\ writes' = writes + 1
    /\ last_write' = "err"
    /\ Terminate("write_error")
    /\ UNCHANGED <<cfg, running_coords, running_client, running_url, error_count, current,
                   geo_calls, fetches, ok_fetches, slept, last_cycle, mixed>>
    /\ UNCHANGED <<sleeps, got_empty>>
    /\ UNCHANGED normVars

\* variant of Sleep: the interval of the configuration is doubled after every sleep
Sleep_backoff ==
    /\ pc = "sleep"
    /\ slept' = get_timing(cfg)
    /\ sleeps' = sleeps + 1
    /\ cfg' = [cfg EXCEPT !.timing = (2 * cfg.timing) % 8192]
    /\ pc' = "loop"
    /\ UNCHANGED <<exit, running_coords, running_client, running_url, error_count,
                   current, geo_calls, fetches, ok_fetches, writes, last_cycle, mixed,
                   last_write, got_empty>>
    /\ UNCHANGED normVars

\* main.rs:334: thread::sleep(Duration::from_secs(running_config.get_timing()))
Sleep ==
    /\ pc = "sleep"
    /\ slept' = get_timing(cfg)
    /\ sleeps' = sleeps + 1
    /\ pc' = "loop"
    /\ UNCHANGED <<exit, cfg, running_coords, running_client, running_url, error_count,
                   current, geo_calls, fetches, ok_fetches, writes, last_cycle, mixed,
                   last_write, got_empty>>
    /\ UNCHANGED normVars

Next == \/ ParseEnv
        \/ CheckConfig
        \/ BuildClient
        \/ LoopCheck
        \/ FetchErr
        \/ FetchOk
        \/ WriteOk
        \/ WriteErr
        \/ Sleep

Spec == Init /\ [][Next]_vars

\* the single thread of main never stops between two statements
FairSpec == Spec /\ WF_vars(Sleep) /\ WF_vars(LoopCheck)

\* main.rs:310: in addition, every call of get_pollution returns, with Ok or with Err
FetchFairSpec == FairSpec /\ WF_vars(FetchErr \/ FetchOk)

----------------------------------------------------------------------------
(* Normalisation runs: set_dbserver applied to a string, then to its own result *)

InitNorm == InitMain /\ InitNormRest /\ arg \in UrlInputs /\ response = None

\* lib.rs:127-141 called on a Config of lib.rs
LibSetDbserver ==
    /\ lib_calls < MaxCalls
    /\ LET new_dbserver == IF lib_calls = 0 THEN arg ELSE lib_config.dbserver.val
       IN  /\ lib_in' = new_dbserver
           /\ lib_prev' = lib_config.dbserver
           /\ lib_config' = [lib_config EXCEPT !.dbserver = Some(lib_set_dbserver(new_dbserver))]
    /\ lib_calls' = lib_calls + 1
    /\ UNCHANGED <<arg, main_in, main_prev, main_calls, libVars, unpackVars>>
    /\ UNCHANGED mainVars

\* main.rs:44-54 called on a Config of main.rs
MainSetDbserver ==
    /\ main_calls < MaxCalls
    /\ LET new_dbserver == IF main_calls = 0 THEN arg ELSE cfg.dbserver.val
       IN  /\ main_in' = new_dbserver
           /\ main_prev' = cfg.dbserver
           /\ cfg' = [cfg EXCEPT !.dbserver = Some(main_set_dbserver(new_dbserver))]
    /\ main_calls' = main_calls + 1
    /\ UNCHANGED <<arg, lib_config, lib_in, lib_prev, lib_calls, libVars, unpackVars>>
    /\ UNCHANGED <<pc, exit, running_coords, running_client, running_url, error_count,
                   current, geo_calls, fetches, ok_fetches, writes, slept, last_cycle, mixed,
                   last_write, sleeps, got_empty>>

NextNorm == LibSetDbserver \/ MainSetDbserver

SpecNorm == InitNorm /\ [][NextNorm]_vars

----------------------------------------------------------------------------
(* Properties *)

InLoop == pc \in {"loop", "fetch", "write", "sleep"}

\* C1: for a poll interval T > 0 the sleep after a successful cycle lasts T seconds and the
\* sleep after a failed fetch lasts T div 2 seconds.
C1_SleepLengths ==
    (pc = "loop" /\ slept # -1 /\ cfg.timing > 0) =>
        /\ last_cycle = "success" => slept = cfg.timing
        /\ last_cycle = "failure" => slept = cfg.timing \div 2

\* C2: immediately after a successful cycle the failure counter is 0.
C2_ResetOnSuccess ==
    (pc = "sleep" /\ last_cycle = "success") => error_count = 0

\* C3: the loop takes the "max errors reached" exit only with the counter at max-retry,
\* and once the counter is at max-retry in the loop nothing but the pending sleep and the
\* loop test happens before that exit, which is then taken.
C3_FatalExitIffMax ==
    /\ [](exit = "max_errors" => error_count = cfg.max_retry)
    /\ [][(InLoop /\ error_count = cfg.max_retry) =>
              /\ pc \in {"sleep", "loop"}
              /\ pc' = "loop" \/ exit' = "max_errors"
              /\ error_count' = error_count]_vars
    /\ ((InLoop /\ error_count = cfg.max_retry) ~> (exit = "max_errors"))

C3_Witness ==
    exit = "max_errors" /\ error_count = cfg.max_retry /\ cfg.max_retry = 2 /\ ok_fetches > 0

\* C4: the failure counter stays within 0..max-retry and its u8 increment never overflows,
\* also for max-retry 255.
C4_CounterWithinBudget ==
    /\ 0 <= error_count
    /\ error_count <= cfg.max_retry
    /\ error_count <= 255
    /\ exit # "overflow"

C4_Witness ==
    cfg.max_retry = 255 /\ error_count = 255 /\ pc = "sleep"

\* C5: the budget counts consecutive failures: the loop exits by budget exhaustion only
\* when no successful cycle lies between the failed fetches that were counted.
C5_ConsecutiveFailuresOnly ==
    exit = "max_errors" => ~mixed

\* C6: a sink write error terminates the process at once with that error: the failure
\* counter, the fetches and the sleeps are as they were when the write was issued, the
\* write is not issued again and nothing happens afterwards.
C6_WriteErrorFatal ==
    /\ [](last_write = "err" => pc = "terminated" /\ exit = "write_error")
    /\ [][last_write' = "err" =>
              /\ pc = "write"
              /\ writes' = writes + 1
              /\ error_count' = error_count
              /\ fetches' = fetches
              /\ slept' = slept]_vars
    /\ [][pc # "terminated"]_vars

C6_Witness ==
    last_write = "err" /\ exit = "write_error" /\ error_count = 1 /\ writes = 2

\* C7: with the API key missing the "API key not set" exit is reached before any network
\* call: no geocoding request, no pollution fetch, no sink write.
C7_ApiKeyCheckedBeforeNetwork ==
    /\ exit = "no_apikey" => geo_calls = 0 /\ fetches = 0 /\ writes = 0
    /\ (pc = "terminated" /\ ~cfg.apikey.some) => geo_calls = 0

HalfSetCredentials(c) == c.dbuser.some # c.dbpass.some

FatalConfiguration(c) ==
    \/ ~c.apikey.some
    \/ ~c.location.some
    \/ get_coords(c) = <<"0", "0">>
    \/ HalfSetCredentials(c)

ConfigExits == {"config_error", "no_apikey", "no_location", "default_coords",
                "half_credentials"}

\* main.rs also refuses to start without a sink URL or a database name
StartupExits == ConfigExits \cup {"no_dbserver", "no_dbname"}

\* C8: a configuration with a fatal error (no API key, no or unresolved location, sentinel
\* coordinates, half-set credentials) never gets into the poll loop: no pollution fetch
\* and no sink write occurs, and the process ends with a configuration exit.
C8_ConfigFatalBeforeLoop ==
    /\ FatalConfiguration(cfg) => ~InLoop /\ fetches = 0 /\ writes = 0
    /\ exit \in ConfigExits => FatalConfiguration(cfg) /\ fetches = 0 /\ writes = 0
    /\ (FatalConfiguration(cfg) /\ pc = "terminated") => exit \in StartupExits

C8_Witness ==
    /\ exit = "half_credentials"
    /\ cfg.apikey.some /\ cfg.location.some /\ cfg.dbserver.some /\ cfg.dbname.some
    /\ cfg.dbuser.some /\ ~cfg.dbpass.some

HasScheme(s) == starts_with(s, HTTP) \/ starts_with(s, HTTPS)
Colons(s) == Cardinality({i \in 1..Len(s) : s[i] = ":"})
WithScheme(s) == IF HasScheme(s) THEN s ELSE HTTP \o s

Str_localhost == <<"l","o","c","a","l","h","o","s","t">>
Str_localhost_9000 == Str_localhost \o <<":","9","0","0","0">>
Str_https_host_9000 == HTTPS \o <<"h","o","s","t",":","9","0","0","0">>
Str_http_host == HTTP \o <<"h","o","s","t">>

\* C9: lib.rs set_dbserver stores, for every input: the input itself when it has an http://
\* or https:// scheme and two colons; the input behind "http://" when it has no scheme;
\* ":8086" at the end exactly when the string with its scheme has fewer than two colons;
\* and the four documented examples come out as documented.
C9_NormalizationCases ==
    lib_calls >= 1 =>
        /\ lib_config.dbserver.some
        /\ LET out == lib_config.dbserver.val
               t == WithScheme(lib_in)
           IN  /\ (HasScheme(lib_in) /\ Colons(lib_in) >= 2) => out = lib_in
               /\ ~HasScheme(lib_in) => starts_with(out, HTTP \o lib_in)
               /\ Colons(t) < 2 => out = t \o DEFAULT_PORT
               /\ Colons(t) >= 2 => out = t
               /\ lib_in = Str_localhost => out = LOCALHOST_8086
               /\ lib_in = Str_localhost_9000 => out = HTTP \o Str_localhost_9000
               /\ lib_in = Str_https_host_9000 => out = Str_https_host_9000
               /\ lib_in = Str_http_host => out = Str_http_host \o DEFAULT_PORT

C9_Witness ==
    /\ lib_calls = 1
    /\ lib_in = Str_localhost_9000
    /\ lib_config.dbserver = Some(HTTP \o Str_localhost_9000)

\* C10: normalising a normalised sink URL changes nothing, in lib.rs and in main.rs.
C10_Idempotent ==
    /\ lib_calls >= 2 => (lib_in = lib_prev.val /\ lib_config.dbserver = lib_prev)
    /\ main_calls >= 2 => (main_in = main_prev.val /\ cfg.dbserver = main_prev)

C10_Witness ==
    /\ lib_calls = 2 /\ main_calls = 2
    /\ arg = Str_localhost
    /\ lib_in # arg
    /\ lib_config.dbserver = Some(LOCALHOST_8086)

\* C25: whenever both implementations have been given the same string, they hold the
\* same stored URL.
C25_SameNormalization ==
    (lib_calls >= 1 /\ main_calls >= 1 /\ lib_in = main_in) =>
        lib_config.dbserver = cfg.dbserver

----------------------------------------------------------------------------
(* Config of lib.rs: getters, builders, build_client *)

\* variant of lib_get_dbname: the stored name is ignored
lib_get_dbname_default(c) == "test"

lib_get_key(c) == IF c.apikey.some THEN c.apikey.val ELSE "NOAPISET"

lib_get_coords(c) == IF c.location.some
                     THEN <<f32_to_string(c.location.val.lat), f32_to_string(c.location.val.lon)>>
                     ELSE <<"NOTSET", "NOTSET">>

lib_get_timing(c) == c.timing

lib_get_dbserver(c) == IF c.dbserver.some THEN c.dbserver.val ELSE LOCALHOST_8086

lib_get_dbname(c) == IF c.dbname.some THEN c.dbname.val ELSE "test"

lib_get_maxretry(c) == c.max_retry

\* Config::set_dbuser of lib.rs
set_dbuser(c, new_dbuser) == [c EXCEPT !.dbuser = Some(new_dbuser)]

\* Config::set_dbpass of lib.rs
set_dbpass(c, new_dbpass) == [c EXCEPT !.dbpass = Some(new_dbpass)]

\* Config::parse_env of lib.rs; env is the environment, answer the geocoding outcome
lib_parse_env(env, answer) ==
    LET c0 == LibConfigNew
        c1 == IF env.OPENWEATHER_API_KEY.some
              THEN [c0 EXCEPT !.apikey = Some(env.OPENWEATHER_API_KEY.val)] ELSE c0
        country == IF env.OPENWEATHER_POLL_COUNTRY.some
                   THEN env.OPENWEATHER_POLL_COUNTRY.val ELSE "US"
        geo == get_coords_zipcode(env.OPENWEATHER_POLL_ZIP.val, country, lib_get_key(c1), answer)
        c2 == IF env.OPENWEATHER_POLL_ZIP.some
              THEN [c1 EXCEPT !.location = Some(geo.val)] ELSE c1
        config_timing == IF env.OPENWEATHER_POLL_TIMING.some
                         THEN env.OPENWEATHER_POLL_TIMING.val ELSE <<"3","6","0","0">>
        c3 == [c2 EXCEPT !.timing = unwrap_or(parse_unsigned(config_timing, U64_MAX), 3600)]
        c4 == IF env.OPENWEATHER_INFLUXDB_NAME.some
              THEN [c3 EXCEPT !.dbname = Some(env.OPENWEATHER_INFLUXDB_NAME.val)] ELSE c3
        c5 == IF env.OPENWEATHER_INFLUXDB_SERVER.some
              THEN [c4 EXCEPT !.dbserver =
                        Some(lib_set_dbserver(env.OPENWEATHER_INFLUXDB_SERVER.val))]
              ELSE c4
        c6 == IF env.OPENWEATHER_INFLUXDB_DBUSER.some
              THEN set_dbuser(c5, env.OPENWEATHER_INFLUXDB_DBUSER.val) ELSE c5
        c7 == IF env.OPENWEATHER_INFLUXDB_DBPASS.some
              THEN set_dbpass(c6, env.OPENWEATHER_INFLUXDB_DBPASS.val) ELSE c6
        new_maxretry == IF env.OPENWEATHER_MAX_RETRY.some
                        THEN env.OPENWEATHER_MAX_RETRY.val ELSE <<"3">>
        c8 == [c7 EXCEPT !.max_retry = unwrap_or(parse_unsigned(new_maxretry, U8_MAX), 3)]
        c9 == IF env.OPENWEATHER_INFLUXDB_TOKEN.some
              THEN [c8 EXCEPT !.token = Some(env.OPENWEATHER_INFLUXDB_TOKEN.val)] ELSE c8
    IN  IF env.OPENWEATHER_POLL_ZIP.some /\ ~geo.ok
        THEN [ok |-> FALSE, requests |-> 1]
        ELSE [ok |-> TRUE, val |-> c9,
              requests |-> IF env.OPENWEATHER_POLL_ZIP.some THEN 1 ELSE 0]

\* toml::from_str into ConfigFile (lib.rs:54-76): the serde defaults of absent keys
from_toml(content) ==
    [apikey |-> content.OPENWEATHER_API_KEY,
     zipcode |-> content.OPENWEATHER_POLL_ZIP,
     country |-> IF content.OPENWEATHER_POLL_COUNTRY.some
                 THEN content.OPENWEATHER_POLL_COUNTRY ELSE Some("US"),
     timing |-> unwrap_or(content.OPENWEATHER_POLL_TIMING, 3600),
     dbname |-> content.OPENWEATHER_INFLUXDB_NAME,
     dbserver |-> content.OPENWEATHER_INFLUXDB_SERVER,
     dbuser |-> content.OPENWEATHER_INFLUXDB_DBUSER,
     dbpass |-> content.OPENWEATHER_INFLUXDB_DBPASS,
     max_retry |-> unwrap_or(content.OPENWEATHER_MAX_RETRY, 3),
     token |-> content.OPENWEATHER_INFLUXDB_TOKEN]

\* Config::unpack_config_file of lib.rs; file is what the path holds, answer the geocoding outcome
unpack_config_file(file, answer) ==
    IF ~file.readable THEN [ok |-> FALSE, reason |-> "file_unreadable", requests |-> 0]
    ELSE IF ~file.well_formed THEN [ok |-> FALSE, reason |-> "file_malformed", requests |-> 0]
    ELSE
    LET configuration == from_toml(file.content)
        u0 == LibConfigNew
        u1 == IF configuration.apikey.some THEN [u0 EXCEPT !.apikey = configuration.apikey] ELSE u0
        u2 == IF configuration.dbname.some THEN [u1 EXCEPT !.dbname = configuration.dbname] ELSE u1
        u3 == IF configuration.dbserver.some
              THEN [u2 EXCEPT !.dbserver = configuration.dbserver] ELSE u2
        u4 == IF configuration.dbuser.some THEN [u3 EXCEPT !.dbuser = configuration.dbuser] ELSE u3
        u5 == IF configuration.dbpass.some THEN [u4 EXCEPT !.dbpass = configuration.dbpass] ELSE u4
        u6 == [u5 EXCEPT !.timing = configuration.timing, !.max_retry = configuration.max_retry]
        u7 == IF configuration.token.some THEN [u6 EXCEPT !.token = configuration.token] ELSE u6
        geo == get_coords_zipcode(configuration.zipcode.val, configuration.country.val,
                                  lib_get_key(u7), answer)
    IN  IF configuration.zipcode.some
        THEN IF geo.ok
             THEN [ok |-> TRUE, val |-> [u7 EXCEPT !.location = Some(geo.val)], requests |-> 1]
             ELSE [ok |-> FALSE, reason |-> "location_error", requests |-> 1]
        ELSE [ok |-> TRUE, val |-> [u7 EXCEPT !.location = None], requests |-> 0]

\* variant of lib_build_client: a password without a user yields a token or anonymous client
lib_build_client_lenient(this_config) ==
    IF ~this_config.dbpass.some /\ this_config.dbuser.some THEN [ok |-> FALSE]
    ELSE IF this_config.dbpass.some /\ this_config.dbuser.some
    THEN [ok |-> TRUE,
          val |-> [url |-> lib_get_dbserver(this_config), database |-> lib_get_dbname(this_config),
                   auth |-> [mode |-> "userpass", user |-> this_config.dbuser.val,
                             pass |-> this_config.dbpass.val]]]
    ELSE IF this_config.token.some
    THEN [ok |-> TRUE,
          val |-> [url |-> lib_get_dbserver(this_config), database |-> lib_get_dbname(this_config),
                   auth |-> [mode |-> "token", token |-> this_config.token.val]]]
    ELSE [ok |-> TRUE,
          val |-> [url |-> lib_get_dbserver(this_config), database |-> lib_get_dbname(this_config),
                   auth |-> [mode |-> "none"]]]

\* variant of lib_build_client: a token that is set is preferred to user and password
lib_build_client_token_first(this_config) ==
    IF ~this_config.dbpass.some /\ this_config.dbuser.some THEN [ok |-> FALSE]
    ELSE IF this_config.dbpass.some /\ ~this_config.dbuser.some THEN [ok |-> FALSE]
    ELSE IF this_config.token.some
    THEN [ok |-> TRUE,
          val |-> [url |-> lib_get_dbserver(this_config), database |-> lib_get_dbname(this_config),
                   auth |-> [mode |-> "token", token |-> this_config.token.val]]]
    ELSE IF this_config.dbpass.some
    THEN [ok |-> TRUE,
          val |-> [url |-> lib_get_dbserver(this_config), database |-> lib_get_dbname(this_config),
                   auth |-> [mode |-> "userpass", user |-> this_config.dbuser.val,
                             pass |-> this_config.dbpass.val]]]
    ELSE [ok |-> TRUE,
          val |-> [url |-> lib_get_dbserver(this_config), database |-> lib_get_dbname(this_config),
                   auth |-> [mode |-> "none"]]]

\* build_client of lib.rs: panics on a half-set credential pair, then picks the authentication
lib_build_client(this_config) ==
    IF ~this_config.dbpass.some /\ this_config.dbuser.some THEN [ok |-> FALSE]
    ELSE IF this_config.dbpass.some /\ ~this_config.dbuser.some THEN [ok |-> FALSE]
    ELSE IF this_config.dbpass.some
    THEN [ok |-> TRUE,
          val |-> [url |-> lib_get_dbserver(this_config), database |-> lib_get_dbname(this_config),
                   auth |-> [mode |-> "userpass", user |-> this_config.dbuser.val,
                             pass |-> this_config.dbpass.val]]]
    ELSE IF this_config.token.some
    THEN [ok |-> TRUE,
          val |-> [url |-> lib_get_dbserver(this_config), database |-> lib_get_dbname(this_config),
                   auth |-> [mode |-> "token", token |-> this_config.token.val]]]
    ELSE [ok |-> TRUE,
          val |-> [url |-> lib_get_dbserver(this_config), database |-> lib_get_dbname(this_config),
                   auth |-> [mode |-> "none"]]]

LibServerTexts == {Str_localhost, <<"h",":","9">>, HTTPS \o <<"h",":","9">>}

\* texts of OPENWEATHER_POLL_TIMING: numbers, a unit suffix, the empty string, a sign,
\* and 2^64, the first number outside u64
LibTimingTexts == {<<"0">>, <<"7">>, <<"+","5">>, <<"1","h">>, <<>>, <<"-","1">>,
                   <<"1","8","4","4","6","7","4","4","0","7","3","7","0","9","5","5","1","6","1","6">>}

\* texts of OPENWEATHER_MAX_RETRY: numbers, leading zeros, and 256, the first number outside u8
LibRetryTexts == {<<"0">>, <<"0","0","7">>, <<"2","5","5">>, <<"2","5","6">>, <<"-","1">>,
                  <<"2"," ">>}

LibEnvironments ==
    [OPENWEATHER_API_KEY : Opt({"KEY"}),
     OPENWEATHER_POLL_ZIP : Opt({"02134"}),
     OPENWEATHER_POLL_COUNTRY : Opt({"CA"}),
     OPENWEATHER_POLL_TIMING : Opt(LibTimingTexts),
     OPENWEATHER_INFLUXDB_NAME : Opt({"air", "test"}),
     OPENWEATHER_INFLUXDB_SERVER : Opt(LibServerTexts),
     OPENWEATHER_INFLUXDB_DBUSER : Opt({"user"}),
     OPENWEATHER_INFLUXDB_DBPASS : Opt({"secret"}),
     OPENWEATHER_MAX_RETRY : Opt(LibRetryTexts),
     OPENWEATHER_INFLUXDB_TOKEN : Opt({"tok"})]

FileContents ==
    [OPENWEATHER_API_KEY : Opt({"KEY"}),
     OPENWEATHER_POLL_ZIP : Opt({"02134"}),
     OPENWEATHER_POLL_COUNTRY : Opt({"CA"}),
     OPENWEATHER_POLL_TIMING : Opt({0, 7}),
     OPENWEATHER_INFLUXDB_NAME : Opt({"air"}),
     OPENWEATHER_INFLUXDB_SERVER : Opt(LibServerTexts),
     OPENWEATHER_INFLUXDB_DBUSER : Opt({"user"}),
     OPENWEATHER_INFLUXDB_DBPASS : Opt({"secret"}),
     OPENWEATHER_MAX_RETRY : Opt({0, 255}),
     OPENWEATHER_INFLUXDB_TOKEN : Opt({"tok"})]

ConfigFiles == {[readable |-> FALSE], [readable |-> TRUE, well_formed |-> FALSE]} \cup
               {[readable |-> TRUE, well_formed |-> TRUE, content |-> c] : c \in FileContents}

LibGeoAnswers == {[ok |-> FALSE], [ok |-> TRUE, lat |-> 42, lon |-> -71]}

\* a caller of lib.rs:198-265 builds its Config from the environment
LibParseEnv ==
    /\ lib_pc = "start"
    /\ \E env \in LibEnvironments, answer \in LibGeoAnswers :
          LET r == lib_parse_env(env, answer)
          IN  /\ lib_input' = Some([source |-> "env", values |-> env])
              /\ lib_geo_calls' = lib_geo_calls + r.requests
              /\ IF r.ok
                 THEN lib_config' = r.val /\ lib_pc' = "configured" /\ lib_exit' = lib_exit
                 ELSE lib_config' = lib_config /\ lib_pc' = "stopped"
                      /\ lib_exit' = "location_error"
    /\ UNCHANGED <<arg, lib_in, lib_prev, lib_calls, main_in, main_prev, main_calls,
                   lib_client, unpackVars>>
    /\ UNCHANGED mainVars

\* a caller of lib.rs:271-311 builds its Config from a configuration file
LibUnpackConfigFile ==
    /\ lib_pc = "start"
    /\ \E file \in ConfigFiles, answer \in LibGeoAnswers :
          LET r == unpack_config_file(file, answer)
          IN  /\ lib_input' = Some([source |-> "file", values |-> file])
              /\ lib_geo_calls' = lib_geo_calls + r.requests
              /\ IF r.ok
                 THEN lib_config' = r.val /\ lib_pc' = "configured" /\ lib_exit' = lib_exit
                 ELSE lib_config' = lib_config /\ lib_pc' = "stopped"
                      /\ lib_exit' = r.reason
    /\ UNCHANGED <<arg, lib_in, lib_prev, lib_calls, main_in, main_prev, main_calls,
                   lib_client, unpackVars>>
    /\ UNCHANGED mainVars

\* a caller hands its Config to build_client, lib.rs:471-492
LibBuildClient ==
    /\ lib_pc = "configured"
    /\ LET r == lib_build_client(lib_config)
       IN  IF r.ok
           THEN lib_client' = Some(r.val) /\ lib_pc' = "client" /\ lib_exit' = lib_exit
           ELSE lib_client' = lib_client /\ lib_pc' = "stopped"
                /\ lib_exit' = "half_credentials"
    /\ UNCHANGED <<arg, lib_config, lib_in, lib_prev, lib_calls, main_in, main_prev, main_calls,
                   lib_input, lib_geo_calls, unpackVars>>
    /\ UNCHANGED mainVars

NextLib == LibParseEnv \/ LibUnpackConfigFile \/ LibBuildClient

SpecLib == Init /\ [][NextLib]_vars

----------------------------------------------------------------------------
(* Properties of the Config of lib.rs *)

LibConfigured == lib_pc \in {"configured", "client"} \/ lib_exit = "half_credentials"

\* the keys the Config was built from, whatever the source
InputValues == IF lib_input.val.source = "env" THEN lib_input.val.values
               ELSE lib_input.val.values.content

\* C11: whatever the source, a sink URL present in the input is held by the built Config
\* with a scheme and an explicit port.
C11_StoredUrlNormalized ==
    (LibConfigured /\ InputValues.OPENWEATHER_INFLUXDB_SERVER.some) =>
        /\ lib_config.dbserver.some
        /\ HasScheme(lib_config.dbserver.val)
        /\ Colons(lib_config.dbserver.val) >= 2

\* C12: a missing sink URL or database name does not abort startup.
C12_SinkUrlAndNameOptional ==
    exit \notin {"no_dbserver", "no_dbname"}

\* C13: build_client stops with the credential error exactly when one of user and password
\* is set without the other, and no client exists for such a pair.
C13_HalfSetPairRejected ==
    /\ lib_exit = "half_credentials" =>
           lib_pc = "stopped" /\ HalfSetCredentials(lib_config) /\ ~lib_client.some
    /\ lib_pc = "client" => ~HalfSetCredentials(lib_config) /\ lib_client.some
    /\ lib_client.some => lib_pc = "client"
    /\ lib_client.some =>
           (lib_client.val.auth.mode = "userpass") = (lib_config.dbuser.some /\ lib_config.dbpass.some)

C13_Witness ==
    /\ lib_exit = "half_credentials"
    /\ ~lib_config.dbuser.some /\ lib_config.dbpass.some /\ lib_config.token.some

\* C14: the builder never returns a Config with a half-set credential pair, from the
\* environment or from a file.
C14_BuilderRejectsHalfSet ==
    lib_pc = "configured" => ~HalfSetCredentials(lib_config)

\* C18: the poll interval of a built Config is positive.
C18_IntervalPositive ==
    LibConfigured => lib_config.timing > 0

----------------------------------------------------------------------------
(* Unpacking a response and writing it to the sink *)

Times == {1, 2}
LocationTags == {"Town", "Boston"}

\* variant of unpack: the last entry of the list is used
unpack_last(self, now) ==
    IF Len(self.list) = 0 THEN [ok |-> FALSE]
    ELSE LET current_aqi == self.list[Len(self.list)].main
             current_pollution == self.list[Len(self.list)].components
         IN  [ok |-> TRUE,
              val |-> [time |-> now, location |-> "pending", aqi |-> current_aqi.aqi,
                       co |-> current_pollution.co, no |-> current_pollution.no,
                       no2 |-> current_pollution.no2, o3 |-> current_pollution.o3,
                       so2 |-> current_pollution.so2, pm2_5 |-> current_pollution.pm2_5,
                       pm10 |-> current_pollution.pm10, nh3 |-> current_pollution.nh3]]

\* variant of unpack: the two particulate values change places
unpack_swapped(self, now) ==
    IF Len(self.list) = 0 THEN [ok |-> FALSE]
    ELSE LET current_aqi == self.list[1].main
             current_pollution == self.list[1].components
         IN  [ok |-> TRUE,
              val |-> [time |-> now, location |-> "pending", aqi |-> current_aqi.aqi,
                       co |-> current_pollution.co, no |-> current_pollution.no,
                       no2 |-> current_pollution.no2, o3 |-> current_pollution.o3,
                       so2 |-> current_pollution.so2, pm2_5 |-> current_pollution.pm10,
                       pm10 |-> current_pollution.pm2_5, nh3 |-> current_pollution.nh3]]

\* PollResponse::unpack of lib.rs: list[0] panics on an empty list; now is Utc::now()
unpack(self, now) ==
    IF Len(self.list) = 0 THEN [ok |-> FALSE]
    ELSE LET current_aqi == self.list[1].main
             current_pollution == self.list[1].components
         IN  [ok |-> TRUE,
              val |-> [time |-> now, location |-> "pending", aqi |-> current_aqi.aqi,
                       co |-> current_pollution.co, no |-> current_pollution.no,
                       no2 |-> current_pollution.no2, o3 |-> current_pollution.o3,
                       so2 |-> current_pollution.so2, pm2_5 |-> current_pollution.pm2_5,
                       pm10 |-> current_pollution.pm10, nh3 |-> current_pollution.nh3]]

\* #[derive(InfluxDbWriteable)] on PollUpdate of lib.rs: location is the tag
lib_into_query(u, measurement) ==
    [measurement |-> measurement, time |-> u.time,
     tags |-> [location |-> u.location],
     fields |-> [aqi |-> u.aqi, co |-> u.co, no |-> u.no, no2 |-> u.no2, o3 |-> u.o3,
                 so2 |-> u.so2, pm2_5 |-> u.pm2_5, pm10 |-> u.pm10, nh3 |-> u.nh3]]

\* write_to_db of lib.rs: the query handed to the client
lib_write_to_db(pollution, location) ==
    LET internal_poll == [pollution EXCEPT !.location = location]
    IN  lib_into_query(internal_poll, "pollution")

\* #[derive(InfluxDbWriteable)] on PollUpdate of main.rs: aqi is the tag
main_into_query(u, measurement) ==
    [measurement |-> measurement, time |-> u.time,
     tags |-> [aqi |-> u.aqi],
     fields |-> [co |-> u.co, no |-> u.no, no2 |-> u.no2, o3 |-> u.o3,
                 so2 |-> u.so2, pm2_5 |-> u.pm2_5, pm10 |-> u.pm10, nh3 |-> u.nh3]]

\* write_to_db of main.rs: the query handed to the client
main_write_to_db(aqi, pollution, now) ==
    main_into_query([time |-> now, aqi |-> aqi, co |-> pollution.co, no |-> pollution.no,
                     no2 |-> pollution.no2, o3 |-> pollution.o3, so2 |-> pollution.so2,
                     pm2_5 |-> pollution.pm2_5, pm10 |-> pollution.pm10,
                     nh3 |-> pollution.nh3], "pollution")

InitUnpack == InitMain /\ InitNormRest /\ arg = <<>>
              /\ response \in {Some(r) : r \in PollResponses}

\* a caller of lib.rs unpacks the response, lib.rs:397-407
LibUnpack ==
    /\ lib_exit = "running"
    /\ ~lib_update.some
    /\ \E now \in Times :
          LET r == unpack(response.val, now)
          IN  IF r.ok
              THEN lib_update' = Some(r.val) /\ UNCHANGED <<lib_pc, lib_exit>>
              ELSE lib_update' = lib_update /\ lib_pc' = "stopped" /\ lib_exit' = "index_panic"
    /\ UNCHANGED <<arg, lib_config, lib_in, lib_prev, lib_calls, main_in, main_prev, main_calls,
                   lib_input, lib_client, lib_geo_calls, response, lib_point, main_point>>
    /\ UNCHANGED mainVars

\* a caller of lib.rs writes the unpacked reading, lib.rs:452-465
LibWriteToDb ==
    /\ lib_update.some
    /\ ~lib_point.some
    /\ \E location \in LocationTags :
          lib_point' = Some(lib_write_to_db(lib_update.val, location))
    /\ UNCHANGED <<arg, lib_config, lib_in, lib_prev, lib_calls, main_in, main_prev, main_calls,
                   libVars, response, lib_update, main_point>>
    /\ UNCHANGED mainVars

\* the success branch of the loop body of main.rs on the same response, main.rs:316-323
MainUnpackWrite ==
    /\ exit = "running"
    /\ ~main_point.some
    /\ LET unpacked == response.val
       IN  IF Len(unpacked.list) = 0
           THEN Terminate("index_panic") /\ main_point' = main_point
           ELSE /\ \E now \in Times :
                      main_point' = Some(main_write_to_db(unpacked.list[1].main.aqi,
                                                          unpacked.list[1].components, now))
                /\ UNCHANGED <<pc, exit>>
    /\ UNCHANGED <<cfg, running_coords, running_client, running_url, error_count, current,
                   geo_calls, fetches, ok_fetches, writes, slept, last_cycle, mixed,
                   last_write, sleeps, got_empty>>
    /\ UNCHANGED <<arg, lib_config, lib_in, lib_prev, lib_calls, main_in, main_prev, main_calls,
                   libVars, response, lib_update, lib_point>>

NextUnpack == LibUnpack \/ LibWriteToDb \/ MainUnpackWrite

SpecUnpack == InitUnpack /\ [][NextUnpack]_vars

\* the nine measured values of a PollUpdate
Reading(u) == [aqi |-> u.aqi, co |-> u.co, no |-> u.no, no2 |-> u.no2, o3 |-> u.o3,
               so2 |-> u.so2, pm2_5 |-> u.pm2_5, pm10 |-> u.pm10, nh3 |-> u.nh3]

\* the nine measured values of entry 0 of a response
FirstEntry(r) == [aqi |-> r.list[1].main.aqi, co |-> r.list[1].components.co,
                  no |-> r.list[1].components.no, no2 |-> r.list[1].components.no2,
                  o3 |-> r.list[1].components.o3, so2 |-> r.list[1].components.so2,
                  pm2_5 |-> r.list[1].components.pm2_5, pm10 |-> r.list[1].components.pm10,
                  nh3 |-> r.list[1].components.nh3]

\* C15: the unpacked reading of a response is the unpacked reading of every response with
\* the same entry 0, whatever follows that entry.
C15_OnlyFirstEntryUsed ==
    lib_update.some =>
        \A other \in PollResponses, now \in Times :
            (Len(other.list) >= 1 /\ other.list[1] = response.val.list[1]) =>
                /\ unpack(other, now).ok
                /\ Reading(unpack(other, now).val) = Reading(lib_update.val)

C15_Witness ==
    /\ lib_update.some
    /\ Len(response.val.list) = 2
    /\ response.val.list[2] # response.val.list[1]
    /\ lib_update.val.pm10 = response.val.list[1].components.pm10

\* C16: each value of entry 0 arrives at the sink under its own name with its own value,
\* in lib.rs and in main.rs, and write_to_db of lib.rs changes only the location tag.
C16_ValuesReachSinkUnchanged ==
    /\ lib_update.some => Reading(lib_update.val) = FirstEntry(response.val)
    /\ lib_point.some =>
           /\ lib_point.val.fields = FirstEntry(response.val)
           /\ lib_point.val.time = lib_update.val.time
           /\ lib_point.val.tags.location \in LocationTags
           /\ lib_point.val.measurement = "pollution"
    /\ main_point.some =>
           /\ [aqi |-> main_point.val.tags.aqi] @@ main_point.val.fields = FirstEntry(response.val)
           /\ main_point.val.measurement = "pollution"

C16_Witness ==
    /\ lib_point.some /\ main_point.some
    /\ lib_point.val.fields.pm10 = 5 /\ lib_point.val.fields.pm2_5 = 3
    /\ lib_point.val.tags.location = "Boston"
    /\ main_point.val.tags.aqi = 2

----------------------------------------------------------------------------
(* Properties of the poll loop, continued *)

\* C17 as claimed: every successful fetch has had its one write attempt, except the one
\* whose write is about to be issued.
C17_OneWritePerSuccessfulFetch ==
    writes = ok_fetches - (IF pc = "write" THEN 1 ELSE 0)

\* C17 as amended: a successful fetch with at least one entry is followed by exactly one
\* write attempt in its cycle, a successful fetch with an empty list ends the process
\* without a write, and a failed fetch issues no write.
C17_OneWritePerDecodedFetch ==
    /\ [](writes = ok_fetches - (IF pc = "write" THEN 1 ELSE 0)
                              - (IF exit = "index_panic" THEN 1 ELSE 0))
    /\ [][(ok_fetches' # ok_fetches /\ exit' # "index_panic") =>
              (pc' = "write" /\ current'.some /\ writes' = writes)]_vars
    /\ [][(fetches' # fetches /\ ok_fetches' = ok_fetches) =>
              (writes' = writes /\ pc' # "write")]_vars
    /\ [][writes' # writes =>
              (pc = "write" /\ writes' = writes + 1 /\ pc' # "write")]_vars

C17_Witness ==
    exit = "index_panic" /\ ok_fetches = 2 /\ writes = 1 /\ error_count = 1

\* C20: a sleep follows a failed fetch only while the counter is below max-retry; the
\* failed fetch that fills the budget is followed by the fatal exit without a sleep.
C20_NoSleepBeforeFatalExit ==
    (pc = "sleep" /\ last_cycle = "failure") => error_count < cfg.max_retry

\* C21: the failed fetches are the counter, which stays within max-retry, so from any
\* point of the loop at most max-retry further fetches fail; and from every loop state
\* without a pending write, either a later fetch succeeds (its write is pending, or its
\* empty list has ended the process) or the "max errors reached" exit is taken.
C21_FailingFetchesReachFatalExit ==
    /\ [](fetches - ok_fetches = error_count /\ error_count <= cfg.max_retry)
    /\ (InLoop /\ pc # "write") ~> (pc = "write" \/ got_empty \/ exit = "max_errors")

C21_Witness ==
    exit = "max_errors" /\ ok_fetches = 1 /\ fetches = 4 /\ error_count = 3 /\ sleeps = 4

\* C22: the location request is issued at most once, by the configuration build at the
\* start of the process and never in the loop; when it fails the process has ended with
\* one request made, no fetch, no write and no sleep, and nothing follows.
C22_LocationResolvedOnceBeforeLoop ==
    /\ [](geo_calls <= 1)
    /\ [][geo_calls' # geo_calls => (pc = "start" /\ geo_calls = 0 /\ ~InLoop')]_vars
    /\ [](exit = "config_error" =>
              /\ pc = "terminated" /\ geo_calls = 1
              /\ fetches = 0 /\ writes = 0 /\ sleeps = 0 /\ ~running_url.some)
    /\ [][exit = "config_error" => UNCHANGED vars]_vars

C22_Witness ==
    exit = "config_error" /\ geo_calls = 1 /\ pc = "terminated"

\* C23: a write starts only from the successful fetch of its cycle, a fetch returns only
\* while it is the one step in progress, the fetch number n+1 starts with exactly n
\* sleeps done, and a sleep is the one that closes the cycle of the latest fetch.
C23_StrictlySequential ==
    /\ [][(pc' = "write" /\ pc # "write") =>
              (pc = "fetch" /\ ok_fetches' = ok_fetches + 1 /\ current'.some)]_vars
    /\ [][fetches' # fetches =>
              (pc = "fetch" /\ ~current.some /\ sleeps = fetches)]_vars
    /\ [][sleeps' # sleeps =>
              (pc = "sleep" /\ ~current.some /\ sleeps' = fetches)]_vars
    /\ [](pc = "fetch" => sleeps = fetches)
    /\ [](sleeps <= fetches /\ fetches <= sleeps + 1)

C23_Witness ==
    pc = "fetch" /\ fetches = 3 /\ sleeps = 3 /\ writes = 2 /\ error_count = 1

\* C24: no step taken in the loop changes the configuration, the coordinates, the sink
\* client or the request URL.
C24_LoopKeepsConfiguration ==
    [][InLoop => /\ cfg' = cfg
                 /\ running_coords' = running_coords
                 /\ running_client' = running_client
                 /\ running_url' = running_url]_vars

C24_Witness ==
    /\ exit = "max_errors" /\ sleeps = 3 /\ writes = 1 /\ cfg.timing = 1
    /\ running_url.some /\ running_url.val.appid = get_key(cfg)

\* C26: with max-retry 0 the first loop test takes the "max errors reached" exit; no
\* fetch, write or sleep is ever issued and no failure is ever counted.
C26_ZeroBudgetExitsAtOnce ==
    /\ []((cfg.max_retry = 0 /\ (InLoop \/ exit = "max_errors")) =>
              /\ pc \in {"loop", "terminated"}
              /\ fetches = 0 /\ writes = 0 /\ sleeps = 0 /\ error_count = 0)
    /\ [][(cfg.max_retry = 0 /\ pc = "loop") => exit' = "max_errors"]_vars

C26_Witness ==
    exit = "max_errors" /\ cfg.max_retry = 0 /\ fetches = 0 /\ sleeps = 0

\* C27: a fetch that returns Ok with an empty list ends the process in that step with the
\* index panic: the counter and the number of writes are as before the fetch, and no
\* step follows.
C27_EmptyListPanics ==
    /\ [](got_empty => (pc = "terminated" /\ exit = "index_panic"))
    /\ [](exit = "index_panic" => got_empty)
    /\ [][got_empty' /\ ~got_empty =>
              /\ pc = "fetch" /\ ok_fetches' = ok_fetches + 1
              /\ error_count' = error_count /\ writes' = writes /\ sleeps' = sleeps
              /\ last_cycle' = last_cycle]_vars
    /\ [][got_empty => UNCHANGED vars]_vars

C27_Witness ==
    got_empty /\ exit = "index_panic" /\ error_count = 2 /\ writes = 1 /\ fetches = 4

----------------------------------------------------------------------------
(* Properties of the Config of lib.rs, continued *)

\* the timing texts that are a u64 in decimal, with the number each one denotes
TimingAsGiven == (<<"0">> :> 0) @@ (<<"7">> :> 7) @@ (<<"+","5">> :> 5)

\* the max-retry texts that are a u8 in decimal, with the number each one denotes
RetryAsGiven == (<<"0">> :> 0) @@ (<<"0","0","7">> :> 7) @@ (<<"2","5","5">> :> 255)

\* C28: a Config built from the environment holds, for the poll timing and for max-retry,
\* the number the text denotes when the text is a number of the field's width, and the
\* default (3600, 3) for any other text; the build fails only on the location request.
C28_UnparseableNumbersDefault ==
    (lib_input.some /\ lib_input.val.source = "env") =>
        LET env == lib_input.val.values
            t == env.OPENWEATHER_POLL_TIMING
            r == env.OPENWEATHER_MAX_RETRY
        IN  /\ LibConfigured \/ (lib_exit = "location_error" /\ env.OPENWEATHER_POLL_ZIP.some)
            /\ LibConfigured =>
                   /\ lib_config.timing = IF t.some /\ t.val \in DOMAIN TimingAsGiven
                                          THEN TimingAsGiven[t.val] ELSE 3600
                   /\ lib_config.max_retry = IF r.some /\ r.val \in DOMAIN RetryAsGiven
                                             THEN RetryAsGiven[r.val] ELSE 3

C28_Witness ==
    /\ lib_pc = "configured" /\ lib_input.val.source = "env"
    /\ lib_input.val.values.OPENWEATHER_POLL_TIMING = Some(<<"1","h">>)
    /\ lib_input.val.values.OPENWEATHER_MAX_RETRY = Some(<<"2","5","6">>)
    /\ lib_config.timing = 3600 /\ lib_config.max_retry = 3

\* C29: the client build_client returns authenticates with user and password when both
\* are set, whether or not a token is set; with the token when it is set and neither
\* user nor password is; with nothing when none of the three is set; and a half-set
\* pair ends in the credential error also when a token is set.
C29_OneAuthenticationMode ==
    /\ lib_client.some =>
           LET auth == lib_client.val.auth
               c == lib_config
           IN  /\ auth.mode \in {"userpass", "token", "none"}
               /\ (c.dbuser.some /\ c.dbpass.some) =>
                      auth = [mode |-> "userpass", user |-> c.dbuser.val, pass |-> c.dbpass.val]
               /\ (~c.dbuser.some /\ ~c.dbpass.some /\ c.token.some) =>
                      auth = [mode |-> "token", token |-> c.token.val]
               /\ (~c.dbuser.some /\ ~c.dbpass.some /\ ~c.token.some) =>
                      auth = [mode |-> "none"]
    /\ (HalfSetCredentials(lib_config) /\ lib_config.token.some /\ lib_pc \in {"client", "stopped"}
           /\ lib_exit # "location_error") =>
           (lib_exit = "half_credentials" /\ ~lib_client.some)

C29_Witness ==
    /\ lib_client.some /\ lib_client.val.auth.mode = "userpass"
    /\ lib_config.token = Some("tok")

====
